---- MODULE Spec2Model ----
(***************************************************************************)
(* The hero/team data-access layer of app.py: two tables (hero, team) in   *)
(* one SQLite file, a seed routine, read-only queries and the mutations    *)
(* update-age, delete, assign-team and remove-team.  Every routine opens a *)
(* session, does its work and closes it, so the only state that survives a *)
(* call is the content of the two tables.                                  *)
(***************************************************************************)
EXTENDS Integers, Sequences, FiniteSets, TLC

\* ------------------------------------------------------------------ bounds
\* create_heroes is called at most MaxRuns times, the other routines at most
\* MaxCalls times between them (queries included).
MaxRuns == 2
MaxCalls == 2

\* Arguments the routines are called with.  Hero ids 1..8 exist after one
\* seed run; 9 is absent after one run and present after two.
HeroArgs == {1, 2, 8, 9}
\* Team ids 1..3 exist after one seed run, 4 only after two.
TeamArgs == {2, 4}
AgeArgs == {16, 35}
NameArgs == {"Deadpond", "Rusty-Man", "Nobody"}
\* The pairs of bounds the two range queries are called with (those of main),
\* and the bounds over which they are evaluated on every reachable store.
QueryRangeArgs == {<<35, 45>>, <<35, 90>>}
RangeArgs == {35, 36, 45, 93}

\* ---------------------------------------------------------- Optional[...]
\* Optional[int] columns and the result of session.get: None is the empty
\* tuple, a present value v is the one-element tuple <<v>>.
None == <<>>
Some(v) == <<v>>

VARIABLES
    heroes,     \* the hero table: a set of rows, one per primary key
    teams,      \* the team table
    call,       \* the routine called last and its arguments
    prev,       \* the routine called before that
    err,        \* the exception the last call ended with, or "none"
    out,        \* what the last call printed
    runs,       \* number of create_heroes calls so far
    ncalls,     \* number of calls other than create_heroes so far
    deleted     \* TRUE once some hero row has been deleted

vars == <<heroes, teams, call, prev, err, out, runs, ncalls, deleted>>

\* ------------------------------------------------------------ the schema
Team(id, name, headquarters) ==
    [id |-> id, name |-> name, headquarters |-> headquarters]

Hero(id, name, secret_name, age, team_id) ==
    [id |-> id, name |-> name, secret_name |-> secret_name,
     age |-> age, team_id |-> team_id]

\* ------------------------------------------------------ storage primitives
Max(S) == CHOOSE m \in S : \A x \in S : x <= m

\* SQLite INTEGER PRIMARY KEY without AUTOINCREMENT: the new rowid is one
\* more than the largest rowid in the table, 1 for an empty table.
NextRowId(table) == IF table = {} THEN 1 ELSE Max({r.id : r \in table}) + 1

\* session.get(Model, id): the row with that primary key, or None.
Get(table, id) ==
    LET m == {r \in table : r.id = id}
    IN IF m = {} THEN None ELSE Some(CHOOSE r \in m : TRUE)

\* INSERT of one team / hero row, the primary key assigned by the storage.
InsertTeam(ts, name, headquarters) ==
    ts \cup {Team(NextRowId(ts), name, headquarters)}

InsertHero(hs, name, secret_name, age, team_id) ==
    hs \cup {Hero(NextRowId(hs), name, secret_name, age, team_id)}

\* Variant: the UPDATE loses its WHERE clause and sets the age of every row.
SetAge_AllRows(hs, row, age) ==
    {[h EXCEPT !.age = age] : h \in hs}

\* UPDATE hero SET age / team_id WHERE id = row.id
SetAge(hs, row, age) ==
    (hs \ {row}) \cup {[row EXCEPT !.age = age]}

SetTeamId(hs, row, team_id) ==
    (hs \ {row}) \cup {[row EXCEPT !.team_id = team_id]}

\* Variant: the DELETE matches on the name instead of the primary key.
DeleteRow_ByName(hs, row) == {h \in hs : h.name # row.name}

\* DELETE FROM hero WHERE id = row.id
DeleteRow(hs, row) == hs \ {row}

\* SQL three-valued comparisons on a nullable integer column: a NULL operand
\* makes the comparison unknown, and WHERE keeps only rows where it is true.
SqlGe(col, v) == col # None /\ col[1] >= v
SqlGt(col, v) == col # None /\ col[1] > v
SqlLe(col, v) == col # None /\ col[1] <= v
\* Variant: the upper bound of the range is taken inclusive.
SqlLt_Inclusive(col, v) == col # None /\ col[1] <= v
SqlLt(col, v) == col # None /\ col[1] < v

\* ------------------------------------------------------------------- seed
\* The hero rows of create_heroes after its four commits.  zf, pv and wk are
\* the primary keys of the Z-Force, Preventers and Wakaland rows.
SeedHeroes(hs, zf, pv, wk) ==
    LET h1 == InsertHero(hs, "Deadpond", "Dive Wilson", None, Some(zf))
        h2 == InsertHero(h1, "Rusty-Man", "Tommy Sharp", Some(48), Some(pv))
        h3 == InsertHero(h2, "Spider-Boy", "Pedro Parqueador", None, None)
        sb == Get(h3, NextRowId(h2))[1]
        h4 == SetTeamId(h3, sb, Some(pv))
        h5 == InsertHero(h4, "Black Lion", "Trevor Challa", Some(35), Some(wk))
        h6 == InsertHero(h5, "Princess Sure-E", "Sure-E", None, Some(wk))
        h7 == InsertHero(h6, "Tarantula", "Natalia Roman-on", Some(32), Some(pv))
        h8 == InsertHero(h7, "Dr. Weird", "Steve Weird", Some(36), Some(pv))
    IN InsertHero(h8, "Captain North America", "Esteban Rogelios", Some(93),
                  Some(pv))

SeededNames ==
    {"Deadpond", "Rusty-Man", "Spider-Boy", "Black Lion", "Princess Sure-E",
     "Tarantula", "Dr. Weird", "Captain North America"}

\* ---------------------------------------------------------------- queries
\* Each query is a function of the tables; a result is [err, val].
Ok(v) == [err |-> "none", val |-> v]
Raise(e) == [err |-> e, val |-> None]

\* select(Hero) ... .all()
select_heroes(hs) == Ok(hs)

\* Variant: .first() in place of .one(): any matching row, None for no row.
select_hero_by_name_First(hs, name) ==
    LET rows == {h \in hs : h.name = name}
    IN IF rows = {} THEN Ok(None) ELSE Ok(CHOOSE h \in rows : TRUE)

\* select(Hero).where(Hero.name == name) ... .one()
select_hero_by_name(hs, name) ==
    LET rows == {h \in hs : h.name = name}
    IN IF rows = {} THEN Raise("NoResultFound")
       ELSE IF Cardinality(rows) > 1 THEN Raise("MultipleResultsFound")
       ELSE Ok(CHOOSE h \in rows : TRUE)

\* session.get(Hero, id)
select_hero_by_id(hs, id) == Ok(Get(hs, id))

\* where(Hero.age >= ge, Hero.age < lt)
select_heroes_by_age_range(hs, ge, lt) ==
    Ok({h \in hs : SqlGe(h.age, ge) /\ SqlLt(h.age, lt)})

\* where(or_(Hero.age <= le, Hero.age > gt))
select_heroes_by_out_age_range(hs, le, gt) ==
    Ok({h \in hs : SqlLe(h.age, le) \/ SqlGt(h.age, gt)})

\* select(Hero, Team).join(Team): JOIN team ON team.id = hero.team_id
select_heroes_teams(hs, ts) ==
    Ok({<<p[1], Some(p[2])>> :
            p \in {q \in hs \X ts : q[1].team_id = Some(q[2].id)}})

\* Variant: isouter=True is dropped, the join is an inner join.
select_heroes_and_teams_Inner(hs, ts) == select_heroes_teams(hs, ts)

\* select(Hero, Team).join(Team, isouter=True): LEFT OUTER JOIN, a hero row
\* that joins with no team row comes out once, with NULL for the team.
select_heroes_and_teams(hs, ts) ==
    Ok(select_heroes_teams(hs, ts).val \cup
       {<<h, None>> :
            h \in {x \in hs : \A t \in ts : x.team_id # Some(t.id)}})

\* ------------------------------------------------------------------ Init
\* The state after create_db_and_tables() on a fresh database file: both
\* tables exist and are empty.
Init ==
    /\ heroes = {}
    /\ teams = {}
    /\ call = [op |-> "create_db_and_tables", args |-> <<>>]
    /\ prev = [op |-> "start", args |-> <<>>]
    /\ err = "none"
    /\ out = <<>>
    /\ runs = 0
    /\ ncalls = 0
    /\ deleted = FALSE

Called(op, args) ==
    /\ call' = [op |-> op, args |-> args]
    /\ prev' = call

\* A call that reads the tables and prints: res is the [err, val] it ends in.
Query(op, args, res) ==
    /\ ncalls < MaxCalls
    /\ ncalls' = ncalls + 1
    /\ Called(op, args)
    /\ err' = res.err
    /\ out' = IF res.err = "none" THEN <<res.val>> ELSE <<>>
    /\ UNCHANGED <<heroes, teams, runs, deleted>>

\* Variant: the seed routine skips a store that already holds heroes.
create_heroes_Idempotent ==
    /\ runs < MaxRuns
    /\ IF heroes = {}
       THEN LET t1 == InsertTeam(teams, "Z-Force", "Sister Margaret's Bar")
                t2 == InsertTeam(t1, "Preventers", "Sharp Tower")
                t3 == InsertTeam(t2, "Wakaland", "Wakaland Capital City")
            IN /\ teams' = t3
               /\ heroes' = SeedHeroes(heroes, NextRowId(teams), NextRowId(t1),
                                       NextRowId(t2))
       ELSE UNCHANGED <<heroes, teams>>
    /\ Called("create_heroes", <<>>)
    /\ err' = "none"
    /\ out' = <<>>
    /\ runs' = runs + 1
    /\ UNCHANGED <<ncalls, deleted>>

\* ---------------------------------------------------------------- actions
\* Z-Force is reached from hero_deadpond, the first object added, Preventers
\* from hero_rusty_man, so the unit of work inserts them in that order;
\* Wakaland is inserted by the third commit.
create_heroes ==
    /\ runs < MaxRuns
    /\ LET zf == NextRowId(teams)
           t1 == InsertTeam(teams, "Z-Force", "Sister Margaret's Bar")
           pv == NextRowId(t1)
           t2 == InsertTeam(t1, "Preventers", "Sharp Tower")
           wk == NextRowId(t2)
           t3 == InsertTeam(t2, "Wakaland", "Wakaland Capital City")
       IN /\ teams' = t3
          /\ heroes' = SeedHeroes(heroes, zf, pv, wk)
    /\ Called("create_heroes", <<>>)
    /\ err' = "none"
    /\ out' = <<>>
    /\ runs' = runs + 1
    /\ UNCHANGED <<ncalls, deleted>>

\* Variant: the age update checks for the row and returns when it is absent.
update_hero_age_Guarded(id, age) ==
    /\ ncalls < MaxCalls
    /\ ncalls' = ncalls + 1
    /\ Called("update_hero_age", <<id, age>>)
    /\ LET hero == Get(heroes, id)
       IN IF hero = None
          THEN /\ out' = <<None>>
               /\ UNCHANGED heroes
          ELSE /\ heroes' = SetAge(heroes, hero[1], Some(age))
               /\ out' = <<hero, Get(heroes', id)>>
    /\ err' = "none"
    /\ UNCHANGED <<teams, runs, deleted>>

update_hero_age(id, age) ==
    /\ ncalls < MaxCalls
    /\ ncalls' = ncalls + 1
    /\ Called("update_hero_age", <<id, age>>)
    /\ LET hero == Get(heroes, id)
       IN IF hero = None
          THEN \* hero.age = age on None
               /\ err' = "AttributeError"
               /\ out' = <<None>>
               /\ UNCHANGED heroes
          ELSE /\ heroes' = SetAge(heroes, hero[1], Some(age))
               /\ err' = "none"
               /\ out' = <<hero, Get(heroes', id)>>
    /\ UNCHANGED <<teams, runs, deleted>>

delete_hero(id) ==
    /\ ncalls < MaxCalls
    /\ ncalls' = ncalls + 1
    /\ Called("delete_hero", <<id>>)
    /\ LET hero == Get(heroes, id)
       IN IF hero = None
          THEN \* session.delete(None)
               /\ err' = "UnmappedInstanceError"
               /\ out' = <<>>
               /\ UNCHANGED <<heroes, deleted>>
          ELSE /\ heroes' = DeleteRow(heroes, hero[1])
               /\ err' = "none"
               /\ out' = IF Get(heroes', id) = None THEN <<None>> ELSE <<>>
               /\ deleted' = TRUE
    /\ UNCHANGED <<teams, runs>>

\* The foreign key hero.team_id -> team.id is declared, but the engine is
\* created with SQLite's defaults, under which foreign keys are not enforced:
\* the commit stores whatever teamid is given.
assign_hero_to_team(teamid, heroid) ==
    /\ ncalls < MaxCalls
    /\ ncalls' = ncalls + 1
    /\ Called("assign_hero_to_team", <<teamid, heroid>>)
    /\ LET hero == Get(heroes, heroid)
       IN IF hero # None
          THEN heroes' = SetTeamId(heroes, hero[1], Some(teamid))
          ELSE UNCHANGED heroes
    /\ err' = "none"
    /\ out' = <<>>
    /\ UNCHANGED <<teams, runs, deleted>>

\* Variant: the cleared team_id is never committed.
remove_hero_from_team_NoCommit(id) ==
    /\ ncalls < MaxCalls
    /\ ncalls' = ncalls + 1
    /\ Called("remove_hero_from_team", <<id>>)
    /\ err' = "none"
    /\ out' = <<>>
    /\ UNCHANGED <<heroes, teams, runs, deleted>>

remove_hero_from_team(id) ==
    /\ ncalls < MaxCalls
    /\ ncalls' = ncalls + 1
    /\ Called("remove_hero_from_team", <<id>>)
    /\ LET hero == Get(heroes, id)
       IN IF hero # None
          THEN heroes' = SetTeamId(heroes, hero[1], None)
          ELSE UNCHANGED heroes
    /\ err' = "none"
    /\ out' = <<>>
    /\ UNCHANGED <<teams, runs, deleted>>

SelectHeroes ==
    Query("select_heroes", <<>>, select_heroes(heroes))

SelectHeroByName ==
    \E name \in NameArgs :
        Query("select_hero_by_name", <<name>>, select_hero_by_name(heroes, name))

SelectHeroById ==
    \E id \in HeroArgs :
        Query("select_hero_by_id", <<id>>, select_hero_by_id(heroes, id))

SelectHeroesByAgeRange ==
    \E b \in QueryRangeArgs :
        Query("select_heroes_by_age_range", b,
              select_heroes_by_age_range(heroes, b[1], b[2]))

SelectHeroesByOutAgeRange ==
    \E b \in QueryRangeArgs :
        Query("select_heroes_by_out_age_range", b,
              select_heroes_by_out_age_range(heroes, b[1], b[2]))

SelectHeroesTeams ==
    Query("select_heroes_teams", <<>>, select_heroes_teams(heroes, teams))

SelectHeroesAndTeams ==
    Query("select_heroes_and_teams", <<>>,
          select_heroes_and_teams(heroes, teams))

UpdateHeroAge == \E id \in HeroArgs, age \in AgeArgs : update_hero_age(id, age)
DeleteHero == \E id \in HeroArgs : delete_hero(id)
AssignHeroToTeam ==
    \E teamid \in TeamArgs, heroid \in HeroArgs :
        assign_hero_to_team(teamid, heroid)
RemoveHeroFromTeam == \E id \in HeroArgs : remove_hero_from_team(id)

Next ==
    \/ create_heroes
    \/ UpdateHeroAge
    \/ DeleteHero
    \/ AssignHeroToTeam
    \/ RemoveHeroFromTeam
    \/ SelectHeroes
    \/ SelectHeroByName
    \/ SelectHeroById
    \/ SelectHeroesByAgeRange
    \/ SelectHeroesByOutAgeRange
    \/ SelectHeroesTeams
    \/ SelectHeroesAndTeams

Spec == Init /\ [][Next]_vars

\* ============================================================ properties
NameCount(name) == Cardinality({h \in heroes : h.name = name})
Resolves(h) == h.team_id # None /\ \E t \in teams : t.id = h.team_id[1]
IsCall(c, op) == c.op = op

\* C1: delete_hero(id) with an id that has no hero row completes without an
\* exception and leaves the hero and team tables as they were.
C1_DeleteAbsentIsNoOp ==
    [][(IsCall(call', "delete_hero") /\ Get(heroes, call'.args[1]) = None)
          => (err' = "none" /\ heroes' = heroes /\ teams' = teams)]_vars

\* C2: in every reachable state, every hero row whose team_id is set holds
\* the id of a row of the team table.
C2_TeamIdReferencesTeam ==
    \A h \in heroes : h.team_id # None => \E t \in teams : t.id = h.team_id[1]

\* C3: update_hero_age(id, age) with an id that has no hero row ends in the
\* error of assigning an attribute on the absent record, and both tables are
\* the same after the failure as before the call.
C3_UpdateAbsentFails ==
    [][(IsCall(call', "update_hero_age") /\ Get(heroes, call'.args[1]) = None)
          => (err' = "AttributeError" /\ heroes' = heroes /\ teams' = teams)]_vars

C3_Witness ==
    /\ IsCall(call, "update_hero_age")
    /\ heroes # {}
    /\ Get(heroes, call.args[1]) = None
    /\ err = "AttributeError"

\* The part of C4 that does not depend on the history: the lookup returns
\* the one stored hero of that name when there is exactly one, and signals
\* not-found for none and ambiguous for more than one.
ByNameContract(name) ==
    LET n == NameCount(name)
        r == select_hero_by_name(heroes, name)
    IN /\ n = 1 => /\ r.err = "none"
                   /\ r.val \in heroes
                   /\ r.val.name = name
       /\ n = 0 => r.err = "NoResultFound"
       /\ n > 1 => r.err = "MultipleResultsFound"

\* C4 as stated: select_hero_by_name returns the hero when exactly one row
\* has the name and signals an error for zero or several rows; and once
\* create_heroes has run twice it signals the error for every seeded name.
C4_ByNameOriginal ==
    /\ \A name \in SeededNames \cup NameArgs : ByNameContract(name)
    /\ runs >= 2 =>
           \A name \in SeededNames :
               select_hero_by_name(heroes, name).err # "none"

\* C4 amended: as above, but the error for every seeded name after two runs
\* of create_heroes is claimed only while no hero has been deleted.
C4_ByNameAmended ==
    /\ \A name \in SeededNames \cup NameArgs : ByNameContract(name)
    /\ (runs >= 2 /\ ~deleted) =>
           \A name \in SeededNames :
               select_hero_by_name(heroes, name).err = "MultipleResultsFound"
    /\ IsCall(call, "select_hero_by_name") =>
           err = select_hero_by_name(heroes, call.args[1]).err

C4_Witness ==
    /\ IsCall(call, "select_hero_by_name")
    /\ call.args[1] \in SeededNames
    /\ runs = 2
    /\ ~deleted
    /\ NameCount(call.args[1]) = 2
    /\ err = "MultipleResultsFound"

\* C5 as stated: from the empty store and with no deletions, after k >= 1
\* runs of create_heroes there are 9*k heroes and 3*k teams.
C5_NineHeroesPerRun ==
    (runs >= 1 /\ ~deleted) =>
        /\ Cardinality(select_heroes(heroes).val) = 9 * runs
        /\ \A name \in SeededNames : NameCount(name) = runs
        /\ Cardinality(teams) = 3 * runs

\* C5 amended: from the empty store and with no deletions, after k >= 1 runs
\* of create_heroes select_heroes returns exactly 8*k heroes, each of the 8
\* seeded names occurring exactly k times and no other name occurring, and
\* exactly 3*k teams are stored.
C5_EightHeroesPerRun ==
    (runs >= 1 /\ ~deleted) =>
        /\ select_heroes(heroes).err = "none"
        /\ Cardinality(select_heroes(heroes).val) = 8 * runs
        /\ \A name \in SeededNames : NameCount(name) = runs
        /\ \A h \in select_heroes(heroes).val : h.name \in SeededNames
        /\ Cardinality(teams) = 3 * runs

C5_Witness ==
    /\ runs = 2
    /\ ~deleted
    /\ IsCall(call, "create_heroes")
    /\ IsCall(prev, "create_heroes")
    /\ Cardinality(heroes) = 16
    /\ Cardinality(teams) = 6

\* C6: for an existing hero h and any team id t, assign_hero_to_team(t, h)
\* followed by remove_hero_from_team(h) leaves h stored with no team
\* reference, and leaves the team table (so team t, if stored) as it was.
C6_AssignThenRemove ==
    [][(/\ IsCall(call, "assign_hero_to_team")
        /\ IsCall(call', "remove_hero_from_team")
        /\ call'.args[1] = call.args[2]
        /\ Get(heroes, call.args[2]) # None)
          => LET h == call.args[2]
                 t == call.args[1]
                 after == select_hero_by_id(heroes', h)
             IN /\ err' = "none"
                /\ after.err = "none"
                /\ after.val # None
                /\ after.val[1].team_id = None
                /\ teams' = teams
                /\ Get(teams', t) = Get(teams, t)
                /\ {x.id : x \in heroes'} = {x.id : x \in heroes}]_vars

C6_Witness ==
    /\ IsCall(call, "remove_hero_from_team")
    /\ IsCall(prev, "assign_hero_to_team")
    /\ prev.args[2] = call.args[1]
    /\ Get(teams, prev.args[1]) # None
    /\ Get(heroes, call.args[1]) # None
    /\ Get(heroes, call.args[1])[1].team_id = None

\* C7: in every reachable state the inner join has exactly one pair for each
\* hero whose team_id resolves to a stored team, that pair holding that
\* team, and none for any other hero (so none for a hero with a null
\* team_id); the outer join has exactly one pair for every stored hero, a
\* hero without a team paired with None, the others with their team.
C7_Joins ==
    LET joined == {h \in heroes : Resolves(h)}
        inner == select_heroes_teams(heroes, teams).val
        outer == select_heroes_and_teams(heroes, teams).val
    IN /\ \A p \in inner :
            /\ p[1] \in joined
            /\ p[2] # None
            /\ p[2][1] \in teams
            /\ p[2][1].id = p[1].team_id[1]
       /\ {p[1] : p \in inner} = joined
       /\ Cardinality(inner) = Cardinality(joined)
       /\ \A p \in outer :
            /\ p[1] \in heroes
            /\ p[1] \notin joined <=> p[2] = None
            /\ p[1] \in joined =>
                  /\ p[2][1] \in teams
                  /\ p[2][1].id = p[1].team_id[1]
       /\ {p[1] : p \in outer} = heroes
       /\ Cardinality(outer) = Cardinality(heroes)
       /\ IsCall(call, "select_heroes_teams") => out = <<inner>>
       /\ IsCall(call, "select_heroes_and_teams") => out = <<outer>>

C7_Witness ==
    /\ IsCall(call, "select_heroes_and_teams")
    /\ \E h \in heroes : h.team_id = None
    /\ \E h \in heroes : Resolves(h)
    /\ \E p \in out[1] : p[2] = None
    /\ \E p \in out[1] : p[2] # None
    /\ Cardinality(select_heroes_teams(heroes, teams).val) < Cardinality(out[1])

\* C8: for all bounds, the range query returns exactly the heroes with a
\* non-null age and ge <= age < lt, the out-of-range query exactly those with
\* a non-null age and age <= le or age > gt; neither returns a null-age hero.
C8_AgeRanges ==
    LET aged == {h \in heroes : h.age # None}
    IN /\ \A a \in RangeArgs, b \in RangeArgs :
            LET in == select_heroes_by_age_range(heroes, a, b)
                outside == select_heroes_by_out_age_range(heroes, a, b)
            IN /\ in.err = "none"
               /\ outside.err = "none"
               /\ in.val = {h \in aged : a <= h.age[1] /\ h.age[1] < b}
               /\ outside.val = {h \in aged : h.age[1] <= a \/ h.age[1] > b}
               /\ \A h \in in.val \cup outside.val : h.age # None
       /\ IsCall(call, "select_heroes_by_age_range") =>
            out = <<select_heroes_by_age_range(heroes, call.args[1],
                                               call.args[2]).val>>
       /\ IsCall(call, "select_heroes_by_out_age_range") =>
            out = <<select_heroes_by_out_age_range(heroes, call.args[1],
                                                   call.args[2]).val>>

C8_Witness ==
    /\ IsCall(call, "select_heroes_by_out_age_range")
    /\ call.args = <<35, 90>>
    /\ {h.age : h \in out[1]} = {Some(32), Some(35), Some(93)}
    /\ \E h \in heroes : h.age = None
    /\ {h.age[1] : h \in select_heroes_by_age_range(heroes, 35, 45).val}
           = {35, 36}

\* C9: for an existing hero id, update_hero_age(id, age) followed by
\* select_hero_by_id(id) returns a hero with that age; its name, secret name
\* and team reference, every other hero and every team are unchanged.
C9_UpdateAge ==
    [][(IsCall(call', "update_hero_age") /\ Get(heroes, call'.args[1]) # None)
          => LET id == call'.args[1]
                 old == Get(heroes, id)[1]
                 r == select_hero_by_id(heroes', id)
             IN /\ err' = "none"
                /\ r.err = "none"
                /\ r.val # None
                /\ r.val[1] = [old EXCEPT !.age = Some(call'.args[2])]
                /\ heroes' \ {r.val[1]} = heroes \ {old}
                /\ teams' = teams]_vars

C9_Witness ==
    /\ IsCall(call, "update_hero_age")
    /\ call.args = <<2, 16>>
    /\ err = "none"
    /\ Cardinality(heroes) >= 8
    /\ select_hero_by_id(heroes, 2).val[1].age = Some(16)
    /\ select_hero_by_id(heroes, 2).val[1].name = "Rusty-Man"

\* C10: for an existing hero id, delete_hero(id) followed by
\* select_hero_by_id(id) returns None without error; exactly that one hero
\* row is gone and every other hero and every team is unchanged.
C10_Delete ==
    [][(IsCall(call', "delete_hero") /\ Get(heroes, call'.args[1]) # None)
          => LET id == call'.args[1]
                 old == Get(heroes, id)[1]
             IN /\ err' = "none"
                /\ select_hero_by_id(heroes', id) = Ok(None)
                /\ heroes' = heroes \ {old}
                /\ Cardinality(heroes') = Cardinality(heroes) - 1
                /\ teams' = teams]_vars

C10_Witness ==
    /\ IsCall(call, "delete_hero")
    /\ call.args = <<1>>
    /\ err = "none"
    /\ deleted
    /\ select_hero_by_id(heroes, 1) = Ok(None)
    /\ Cardinality(heroes) = 7
    /\ Get(teams, 1) # None
====
